---- MODULE Spec2Model ----
\* Server actions of the car marketplace: the wishlist toggle, the listing
\* search and the role-gated settings actions, over the tables of
\* prisma/schema.prisma.  Every `await` of a handler is one step of the
\* calling process, so concurrent requests interleave at the awaits.
EXTENDS Integers, Sequences, FiniteSets, TLC

VARIABLES
  user,          \* User table: set of rows [id, clerkUserId, role]
  car,           \* Car table: set of rows
  userSavedCar,  \* UserSavedCar table: number of rows per <<userId, carId>>
  dealershipInfo,\* DealershipInfo table: set of row ids
  workingHour,   \* WorkingHour table: set of rows
  testDriveBooking, \* TestDriveBooking table: set of rows
  pc,            \* per request process: the await it is suspended at
  loc,           \* per request process: the handler's local variables (clerk
                 \* is what auth() returned, once the handler has called it)
  result,        \* per request process: what the finished call produced
  pre,           \* UserSavedCar as it was when the sequential caller's call began
  hist,          \* the sequential caller's completed toggles, newest last
  filter,        \* getCars: the request's parameters other than page
  resp,          \* getCars: the outcome of the latest call
  walk,          \* getCars: rows of pages 1..walk.upTo, fetched in that order
  facets,        \* getCarFilters: the call in progress and the data of the last
  carsCall       \* getCars: the call in progress, its position and locals

vars ==
  <<user, car, userSavedCar, dealershipInfo, workingHour, testDriveBooking,
    pc, loc, result, pre, hist, filter, resp, walk, facets, carsCall>>

-----------------------------------------------------------------------------
\* Bounds and inputs

\* completed toggles the sequential caller's history keeps
MaxHist == 2

\* largest page number and page size a getCars request asks for
MaxPage == 2
MaxLimit == 2

\* the most negative page size a getCars request asks for is -MaxNegLimit
MaxNegLimit == 1

Procs == {"p1", "p2"}

\* auth() yields a Clerk user id, or nothing for an unauthenticated request
NoAuth == "none"
ClerkIds == {"k1", "k2", "k3"}
Callers == ClerkIds \cup {NoAuth}

Null == "null"

\* what findUnique yields when no User row matches
NoUser == [id |-> Null, clerkUserId |-> Null, role |-> Null]

UserRole == {"USER", "ADMIN"}
CarStatus == {"AVAILABLE", "UNAVAILABLE", "SOLD"}

\* "k3" is signed in at the identity provider but has no User row
UserRows ==
  { [id |-> "u1", clerkUserId |-> "k1", role |-> "ADMIN"],
    [id |-> "u2", clerkUserId |-> "k2", role |-> "USER"] }

UserIds == {"u1", "u2"}

\* car ids a toggle request may name; "cX" names no row
ToggleCarIds == {"c1", "c2", "cX"}
AllCarIds == {"c1", "c2", "c3", "c4", "cX"}

-----------------------------------------------------------------------------
\* Strings are sequences of characters, so that case folding and substring
\* search are computed rather than assumed.

Lower(ch) ==
  CASE ch = "A" -> "a"
    [] ch = "B" -> "b"
    [] ch = "S" -> "s"
    [] OTHER -> ch

ToLower(s) == [i \in 1..Len(s) |-> Lower(s[i])]

\* Prisma { equals: v, mode: "insensitive" }
EqualsExact(field, v) == field = v
EqualsInsensitive(field, v) == ToLower(field) = ToLower(v)

\* Prisma { contains: v, mode: "insensitive" }
ContainsInsensitive(field, v) ==
  \E i \in 0..(Len(field) - Len(v)) :
    \A j \in 1..Len(v) : Lower(field[i + j]) = Lower(v[j])

-----------------------------------------------------------------------------
\* The Car rows the stores of this model are drawn from.  c1 and c2 tie on
\* price and on createdAt and differ in the case of brand.  The text "s"
\* occurs in the model of c1 only, in the description of c3 only and nowhere
\* in c2; the text "ab" occurs in the brand of c2 only and nowhere in c3.
\* c2 differs from the others in fuelType and c3 in transmission; the SOLD
\* c4 contains both texts.

MkCar(id, brand, model, description, bodyType, fuelType, transmission, price, status, createdAt) ==
  [id |-> id, brand |-> brand, model |-> model, description |-> description,
   bodyType |-> bodyType, fuelType |-> fuelType, transmission |-> transmission,
   price |-> price, status |-> status, createdAt |-> createdAt]

CarPool ==
  { MkCar("c1", <<"A", "b">>, <<"x", "s">>, <<"a", "B">>, <<"S">>, <<"a">>,
          <<"b">>, 1, "AVAILABLE", 1),
    MkCar("c2", <<"a", "b">>, <<"b">>, <<>>, <<"s">>, <<"b">>, <<"b">>, 1,
          "AVAILABLE", 1),
    MkCar("c3", <<"B">>, <<"a">>, <<"s", "x">>, <<"b">>, <<"a">>, <<"x">>, 2,
          "AVAILABLE", 2),
    MkCar("c4", <<"A", "b">>, <<"s">>, <<"b">>, <<"S">>, <<"a">>, <<"b">>, 0,
          "SOLD", 3) }

-----------------------------------------------------------------------------
\* Store lookups

\* db.user.findUnique({ where: { clerkUserId } })
FindUserByClerkId(clerk) ==
  IF \E u \in user : u.clerkUserId = clerk
    THEN (CHOOSE u \in user : u.clerkUserId = clerk).id
    ELSE Null

\* db.car.findUnique({ where: { id } })
CarExists(carId) == \E c \in car : c.id = carId

SavedKeys == UserIds \X AllCarIds

\* @@unique([userId, carId]) of UserSavedCar: the store rejects the insert
NoUniqueConstraint(userId, carId) == FALSE
UniqueViolation(userId, carId) == userSavedCar[<<userId, carId>>] > 0

-----------------------------------------------------------------------------
\* Request processes

IdleLoc ==
  [op |-> "none", clerk |-> NoAuth, carId |-> Null, userId |-> Null,
   existingSave |-> FALSE, user |-> NoUser, id |-> Null, role |-> Null,
   workingHours |-> <<>>, dealershipId |-> Null, k |-> 0, wrote |-> FALSE,
   isWishlisted |-> FALSE, userTestDrive |-> Null, seenHours |-> {}]

NoResult == [kind |-> "none", success |-> FALSE, saved |-> FALSE, error |-> "none"]

\* a handler returned a value
Returned(success, saved, error) ==
  [kind |-> "returned", success |-> success, saved |-> saved, error |-> error]

\* a handler's catch block rethrew: the caller gets an exception
Thrown(error) ==
  [kind |-> "thrown", success |-> FALSE, saved |-> FALSE, error |-> error]

Finish(p, r) ==
  /\ pc' = [pc EXCEPT ![p] = "done"]
  /\ result' = [result EXCEPT ![p] = r]

Goto(p, label) ==
  /\ pc' = [pc EXCEPT ![p] = label]
  /\ UNCHANGED result

-----------------------------------------------------------------------------
\* getCars({search, brand, bodyType, fuelType, transmission, minPrice,
\*          maxPrice, sortBy, page, limit})

\* minPrice and maxPrice are `string | number`
Str(s) == [t |-> "string", s |-> s, n |-> 0]
Num(n) == [t |-> "number", s |-> <<>>, n |-> n]

IsDigit(ch) == ch \in {"0", "1", "2"}
DigitVal(ch) == CASE ch = "0" -> 0 [] ch = "1" -> 1 [] ch = "2" -> 2

RECURSIVE DigitsValue(_)
DigitsValue(s) ==
  IF s = <<>> THEN 0
  ELSE 10 * DigitsValue(SubSeq(s, 1, Len(s) - 1)) + DigitVal(s[Len(s)])

\* parseFloat: the value of the longest numeric prefix, NaN when there is none
ParseFloat(v) ==
  IF v.t = "number" THEN [nan |-> FALSE, n |-> v.n]
  ELSE LET k == CHOOSE k \in 0..Len(v.s) :
                  /\ \A i \in 1..k : IsDigit(v.s[i])
                  /\ (k < Len(v.s) => ~IsDigit(v.s[k + 1]))
       IN IF k = 0 THEN [nan |-> TRUE, n |-> 0]
          ELSE [nan |-> FALSE, n |-> DigitsValue(SubSeq(v.s, 1, k))]

\* JavaScript truthiness of a `string | number`
Truthy(v) == IF v.t = "string" THEN v.s # <<>> ELSE v.n # 0

\* gte: parseFloat(minPrice as string) || 0
PriceGte(minPrice) ==
  LET f == ParseFloat(minPrice) IN IF f.nan \/ f.n = 0 THEN 0 ELSE f.n

\* if (maxPrice && maxPrice) where.price.lte = parseFloat(maxPrice)
HasLte(maxPrice) == Truthy(maxPrice)

\* { equals: v, mode: "insensitive" } only when v is a non-empty string
Facet(field, v) == v # <<>> => EqualsInsensitive(field, v)

\* where.OR of the three contains-clauses, only when search is non-empty
Search(c, search) ==
  search # <<>> =>
    \/ ContainsInsensitive(c.brand, search)
    \/ ContainsInsensitive(c.model, search)
    \/ ContainsInsensitive(c.description, search)

\* the `where` both db.car.count and db.car.findMany are given
Where(c, f) ==
  /\ c.status = "AVAILABLE"
  /\ Search(c, f.search)
  /\ Facet(c.brand, f.brand)
  /\ Facet(c.bodyType, f.bodyType)
  /\ Facet(c.fuelType, f.fuelType)
  /\ Facet(c.transmission, f.transmission)
  /\ c.price >= PriceGte(f.minPrice)
  /\ (HasLte(f.maxPrice) => c.price <= ParseFloat(f.maxPrice).n)

\* orderBy: price asc | price desc | createdAt desc
InOrder(a, b, sortBy) ==
  CASE sortBy = "priceAsc" -> a.price <= b.price
    [] sortBy = "priceDesc" -> a.price >= b.price
    [] OTHER -> a.createdAt >= b.createdAt

\* The orders the store may return the matching rows in: every arrangement
\* that respects orderBy.  Rows equal on the sort key come in any order, and
\* the order may differ from one query to the next.
Orderings(rows, sortBy) ==
  { s \in [1..Cardinality(rows) -> rows] :
      /\ \A i, j \in 1..Cardinality(rows) : i # j => s[i] # s[j]
      /\ \A i, j \in 1..Cardinality(rows) : i < j => InOrder(s[i], s[j], sortBy) }

Min(a, b) == IF a < b THEN a ELSE b

Max(a, b) == IF a > b THEN a ELSE b

\* findMany({ where, take, skip, orderBy }) on rows arranged as `ord`; a
\* negative take counts skip and take from the end of the list
FindMany(ord, skip, take) ==
  IF take >= 0
    THEN SubSeq(ord, skip + 1, Min(skip + take, Len(ord)))
    ELSE SubSeq(ord, Max(Len(ord) - skip + take + 1, 1), Len(ord) - skip)

\* Math.ceil(totalCars / limit), for limit >= 1
FloorDiv(total, limit) == total \div limit
CeilDiv(total, limit) == (total + limit - 1) \div limit

\* Math.ceil(totalCars / limit) as JavaScript computes it: x / 0 is Infinity,
\* 0 / 0 is NaN, and the ceiling of a negative quotient rounds towards zero
MathCeilOfQuotient(total, limit) ==
  IF limit >= 1 THEN [kind |-> "finite", n |-> CeilDiv(total, limit)]
  ELSE IF limit = 0
    THEN [kind |-> IF total = 0 THEN "NaN" ELSE "Infinity", n |-> 0]
    ELSE [kind |-> "finite", n |-> 0 - (total \div (0 - limit))]

\* const skip = (page - 1) * limit
Skip(page, limit) == (page - 1) * limit

\* wishlisted = new Set(savedCars.map(...)) of
\* db.userSavedCar.findMany({ where: { userId: dbUser.id } })
SavedCarIds(dbUser) == {id \in AllCarIds : userSavedCar[<<dbUser, id>>] > 0}

NoResp ==
  [kind |-> "none", page |-> 0, data |-> <<>>,
   pagination |-> [total |-> 0, page |-> 0, limit |-> 0, pages |-> 0,
                   pagesKind |-> "finite"]]

\* the value getCars returns for the rows and the wishlist it has read
GetCarsResult(page, limit, total, rows, wishlisted) ==
  [kind |-> "returned", page |-> page,
   data |-> [i \in 1..Len(rows) |->
              [car |-> rows[i], wishlisted |-> rows[i].id \in wishlisted]],
   pagination |-> [total |-> total, page |-> page, limit |-> limit,
                   pages |-> MathCeilOfQuotient(total, limit).n,
                   pagesKind |-> MathCeilOfQuotient(total, limit).kind]]

NoWalk == [upTo |-> 0, rows |-> <<>>]

\* the getCars call in progress: where it waits, and its page, dbUser,
\* totalCars and cars
NoCarsCall ==
  [at |-> "idle", page |-> 0, dbUser |-> Null, total |-> 0, rows |-> <<>>]

\* what a step of getCars leaves alone
SearchFrame ==
  UNCHANGED <<user, car, testDriveBooking, userSavedCar, dealershipInfo,
              workingHour, pc, loc, result, pre, hist, filter, facets>>

\* return { success: true, data, pagination }; the walk grows while the pages
\* are asked for in the order 1, 2, 3, ...
GetCarsReturn(rows, wishlisted) ==
  /\ resp' = GetCarsResult(carsCall.page, filter.limit, carsCall.total, rows,
                           wishlisted)
  /\ walk' = IF carsCall.page = walk.upTo + 1
               THEN [upTo |-> carsCall.page, rows |-> walk.rows \o resp'.data]
               ELSE NoWalk
  /\ carsCall' = NoCarsCall

\* getCars({..., page}) for the fixed filter: const { userId } = await auth()
GetCarsCall(page) ==
  /\ carsCall.at = "idle"
  /\ carsCall' = [NoCarsCall EXCEPT !.page = page,
                                !.at = IF filter.clerk = NoAuth THEN "count"
                                                                ELSE "findUser"]
  /\ resp' = NoResp
  /\ UNCHANGED walk
  /\ SearchFrame

\* dbUser = await db.user.findUnique({ where: { clerkUserId: userId } })
GetCarsFindUser ==
  /\ carsCall.at = "findUser"
  /\ carsCall' = [carsCall EXCEPT !.dbUser = FindUserByClerkId(filter.clerk),
                              !.at = "count"]
  /\ UNCHANGED <<resp, walk>>
  /\ SearchFrame

\* const totalCars = await db.car.count({ where })
GetCarsCount ==
  /\ carsCall.at = "count"
  /\ carsCall' = [carsCall EXCEPT !.total = Cardinality({c \in car : Where(c, filter)}),
                              !.at = "findMany"]
  /\ UNCHANGED <<resp, walk>>
  /\ SearchFrame

\* const cars = await db.car.findMany({ where, take: limit, skip, orderBy }):
\* the store hands back the matching rows in one of the orders orderBy
\* allows; a negative skip is rejected by the query engine and the catch
\* rethrows; without a user row the call returns at once
GetCarsFindMany ==
  /\ carsCall.at = "findMany"
  /\ IF Skip(carsCall.page, filter.limit) < 0
       THEN /\ resp' = [NoResp EXCEPT !.kind = "thrown", !.page = carsCall.page]
            /\ walk' = NoWalk
            /\ carsCall' = NoCarsCall
       ELSE \E ord \in Orderings({c \in car : Where(c, filter)}, filter.sortBy) :
              LET rows == FindMany(ord, Skip(carsCall.page, filter.limit),
                                   filter.limit)
              IN IF carsCall.dbUser # Null
                   THEN /\ carsCall' = [carsCall EXCEPT !.rows = rows,
                                                    !.at = "findSaved"]
                        /\ UNCHANGED <<resp, walk>>
                   ELSE GetCarsReturn(rows, {})
  /\ SearchFrame

\* const savedCars = await db.userSavedCar.findMany(...), then the return
GetCarsFindSaved ==
  /\ carsCall.at = "findSaved"
  /\ GetCarsReturn(carsCall.rows, SavedCarIds(carsCall.dbUser))
  /\ SearchFrame

TextInputs == {<<>>, <<"S">>, <<"A", "B">>}
BrandInputs == {<<>>, <<"A", "B">>}
BodyTypeInputs == {<<>>, <<"s">>}
FuelTypeInputs == {<<>>, <<"A">>}
TransmissionInputs == {<<>>, <<"B">>}
MinPriceInputs == {Str(<<>>), Str(<<"2">>)}
MaxPriceInputs == {Str(<<>>), Num(0), Str(<<"0">>), Num(1)}
SortInputs == {"newest", "priceAsc", "priceDesc"}
PageInputs == 0..MaxPage
LimitInputs == 1..MaxLimit
SearchCallers == {NoAuth, "k1"}

NonPositiveLimitInputs == (0 - MaxNegLimit)..0

FiltersWithLimit(limits) ==
  [search : TextInputs, brand : BrandInputs, bodyType : BodyTypeInputs,
   fuelType : FuelTypeInputs, transmission : TransmissionInputs,
   minPrice : MinPriceInputs, maxPrice : MaxPriceInputs, sortBy : SortInputs,
   limit : limits, clerk : SearchCallers]

Filters == FiltersWithLimit(LimitInputs)

\* limit = 6
DefaultLimit == 6

\* the defaults of the parameters of getCars
DefaultFilter ==
  [search |-> <<>>, brand |-> <<>>, bodyType |-> <<>>, fuelType |-> <<>>,
   transmission |-> <<>>, minPrice |-> Str(<<>>), maxPrice |-> Str(<<>>),
   sortBy |-> "newest", limit |-> DefaultLimit, clerk |-> NoAuth]

SearchIdle == UNCHANGED <<filter, resp, walk, facets, carsCall>>

-----------------------------------------------------------------------------
\* getCarFilters()

\* the Car rows the stores of the filter-options model are drawn from
FilterPool ==
  CarPool \cup
    { MkCar("c5", <<"C">>, <<"z">>, <<>>, <<"s">>, <<"a">>, <<"b">>, 0,
            "AVAILABLE", 4),
      MkCar("c6", <<"B">>, <<"z">>, <<>>, <<"t">>, <<"a">>, <<"b">>, 10,
            "AVAILABLE", 5),
      MkCar("c7", <<"D">>, <<"z">>, <<>>, <<"t">>, <<"a">>, <<"b">>, 12,
            "UNAVAILABLE", 6) }

\* findMany({ where: { status: "AVAILABLE" }, select, distinct }): the
\* distinct values of one column (their ascending order is not modelled)
DistinctBrand == {c.brand : c \in {a \in car : a.status = "AVAILABLE"}}
DistinctBodyType == {c.bodyType : c \in {a \in car : a.status = "AVAILABLE"}}
DistinctFuelType == {c.fuelType : c \in {a \in car : a.status = "AVAILABLE"}}
DistinctTransmission ==
  {c.transmission : c \in {a \in car : a.status = "AVAILABLE"}}

\* a Decimal object, or null
NullDecimal == [null |-> TRUE, n |-> 0]
Decimal(n) == [null |-> FALSE, n |-> n]

\* db.car.aggregate({ where: { status: "AVAILABLE" }, _min, _max }): null
\* over no rows
AggregateMin ==
  LET prices == {c.price : c \in {a \in car : a.status = "AVAILABLE"}}
  IN IF prices = {} THEN NullDecimal
     ELSE Decimal(CHOOSE m \in prices : \A q \in prices : m <= q)

AggregateMax ==
  LET prices == {c.price : c \in {a \in car : a.status = "AVAILABLE"}}
  IN IF prices = {} THEN NullDecimal
     ELSE Decimal(CHOOSE m \in prices : \A q \in prices : m >= q)

\* the condition of `price ? ... : ...`: a Decimal is an object, and an
\* object is truthy whatever number it holds
DecimalTruthyAsNumber(d) == ~d.null /\ d.n # 0
DecimalTruthy(d) == ~d.null

DigitChar(n) == CASE n = 0 -> "0" [] n = 1 -> "1" [] n = 2 -> "2"

\* price.toString()
RECURSIVE DecimalToString(_)
DecimalToString(n) ==
  IF n < 10 THEN <<DigitChar(n)>>
  ELSE DecimalToString(n \div 10) \o <<DigitChar(n % 10)>>

DefaultMinPrice == 0
DefaultMaxPrice == 100000

\* priceRange of the returned data
PriceRange ==
  [min |-> IF DecimalTruthy(AggregateMin)
             THEN ParseFloat(Str(DecimalToString(AggregateMin.n))).n
             ELSE DefaultMinPrice,
   max |-> IF DecimalTruthy(AggregateMax)
             THEN ParseFloat(Str(DecimalToString(AggregateMax.n))).n
             ELSE DefaultMaxPrice]

\* the getCarFilters call in progress (at: the query it waits for) and the
\* data of the call that has returned
NoFacets ==
  [at |-> "brands", called |-> FALSE, brands |-> {}, bodyTypes |-> {},
   fuelTypes |-> {}, transmissions |-> {}, priceRange |-> [min |-> 0, max |-> 0]]

\* what a step of getCarFilters leaves alone
FacetsFrame ==
  UNCHANGED <<user, car, testDriveBooking, userSavedCar, dealershipInfo,
              workingHour, pc, loc, result, pre, hist, filter, resp, walk,
              carsCall>>

\* getCarFilters(): const brands = await db.car.findMany(...)
GetCarFiltersBrands ==
  /\ facets.at = "brands"
  /\ facets' = [NoFacets EXCEPT !.brands = DistinctBrand, !.at = "bodyTypes"]
  /\ FacetsFrame

\* const bodyTypes = await db.car.findMany(...)
GetCarFiltersBodyTypes ==
  /\ facets.at = "bodyTypes"
  /\ facets' = [facets EXCEPT !.bodyTypes = DistinctBodyType, !.at = "fuelTypes"]
  /\ FacetsFrame

\* const fuelTypes = await db.car.findMany(...)
GetCarFiltersFuelTypes ==
  /\ facets.at = "fuelTypes"
  /\ facets' = [facets EXCEPT !.fuelTypes = DistinctFuelType,
                              !.at = "transmissions"]
  /\ FacetsFrame

\* const transmissions = await db.car.findMany(...)
GetCarFiltersTransmissions ==
  /\ facets.at = "transmissions"
  /\ facets' = [facets EXCEPT !.transmissions = DistinctTransmission,
                              !.at = "aggregate"]
  /\ FacetsFrame

\* const priceAggregations = await db.car.aggregate(...), then the return
GetCarFiltersAggregate ==
  /\ facets.at = "aggregate"
  /\ facets' = [facets EXCEPT !.priceRange = PriceRange, !.called = TRUE,
                              !.at = "brands"]
  /\ FacetsFrame

-----------------------------------------------------------------------------
\* Settings actions: getDealershipInfo, saveWorkingHours, updateUserRole

DayOfWeek ==
  {"MONDAY", "TUESDAY", "WEDNESDAY", "THURSDAY", "FRIDAY", "SATURDAY", "SUNDAY"}

DealershipIds == {"d1", "d2"}

Hour(day, open, close, isOpen) ==
  [dayOfWeek |-> day, openTime |-> open, closeTime |-> close, isOpen |-> isOpen]

\* a WorkingHour row of dealership d
HourRow(d, h) ==
  [dealershipId |-> d, dayOfWeek |-> h.dayOfWeek, openTime |-> h.openTime,
   closeTime |-> h.closeTime, isOpen |-> h.isOpen]

DefaultHoursSundayOpen ==
  { Hour("MONDAY", "09:00", "18:00", TRUE),
    Hour("TUESDAY", "09:00", "18:00", TRUE),
    Hour("WEDNESDAY", "09:00", "18:00", TRUE),
    Hour("THURSDAY", "09:00", "18:00", TRUE),
    Hour("FRIDAY", "09:00", "18:00", TRUE),
    Hour("SATURDAY", "10:00", "16:00", TRUE),
    Hour("SUNDAY", "10:00", "16:00", TRUE) }

\* workingHours: { create: [...] } of getDealershipInfo
DefaultHours ==
  { Hour("MONDAY", "09:00", "18:00", TRUE),
    Hour("TUESDAY", "09:00", "18:00", TRUE),
    Hour("WEDNESDAY", "09:00", "18:00", TRUE),
    Hour("THURSDAY", "09:00", "18:00", TRUE),
    Hour("FRIDAY", "09:00", "18:00", TRUE),
    Hour("SATURDAY", "10:00", "16:00", TRUE),
    Hour("SUNDAY", "10:00", "16:00", FALSE) }

\* db.user.findUnique({ where: { clerkUserId } }), the row itself
FindUserRow(clerk) ==
  IF \E u \in user : u.clerkUserId = clerk
    THEN CHOOSE u \in user : u.clerkUserId = clerk
    ELSE NoUser

\* if (!user || user.role !== "ADMIN") throw
AnyUserIsAdmin(u) == u # NoUser
IsAdmin(u) == u # NoUser /\ u.role = "ADMIN"

\* @@unique([dealershipId, dayOfWeek]) of WorkingHour
HourUniqueViolation(d, day) ==
  \E r \in workingHour : r.dealershipId = d /\ r.dayOfWeek = day

\* the settings actions report every failure as { success: false, error }
Failed(error) == Returned(FALSE, FALSE, error)
Succeeded == Returned(TRUE, FALSE, "none")

\* getDealershipInfo: const { userId } = await auth()
InfoCall(p, clerk) ==
  /\ pc[p] = "idle"
  /\ loc' = [loc EXCEPT ![p] = [IdleLoc EXCEPT !.op = "getDealershipInfo",
                                               !.clerk = clerk]]
  /\ IF clerk = NoAuth
       THEN Finish(p, Failed("Unauthorized"))
       ELSE Goto(p, "infoFind")
  /\ UNCHANGED <<user, car, testDriveBooking, userSavedCar, dealershipInfo, workingHour>>

\* let dealership = await db.dealershipInfo.findFirst({ include:
\* { workingHours } }): with no orderBy, whichever row the store returns first
InfoFind(p) ==
  /\ pc[p] = "infoFind"
  /\ IF dealershipInfo = {}
       THEN /\ Goto(p, "infoCreate")
            /\ UNCHANGED loc
       ELSE /\ \E d \in dealershipInfo :
                 loc' = [loc EXCEPT ![p].dealershipId = d,
                                    ![p].seenHours =
                                      {r \in workingHour : r.dealershipId = d}]
            /\ Finish(p, Succeeded)
  /\ UNCHANGED <<user, car, testDriveBooking, userSavedCar, dealershipInfo, workingHour>>

\* dealership = await db.dealershipInfo.create({ data: { workingHours: ... } })
InfoCreate(p) ==
  /\ pc[p] = "infoCreate"
  /\ dealershipInfo # DealershipIds
  /\ LET d == CHOOSE d \in DealershipIds : d \notin dealershipInfo IN
       /\ dealershipInfo' = dealershipInfo \cup {d}
       /\ workingHour' = workingHour \cup {HourRow(d, h) : h \in DefaultHours}
       /\ loc' = [loc EXCEPT ![p].dealershipId = d,
                              ![p].seenHours = {HourRow(d, h) : h \in DefaultHours}]
  /\ Finish(p, Succeeded)
  /\ UNCHANGED <<user, car, testDriveBooking, userSavedCar>>

\* saveWorkingHours(workingHours): const { userId } = await auth()
SaveCall(p, clerk, hours) ==
  /\ pc[p] = "idle"
  /\ loc' = [loc EXCEPT ![p] = [IdleLoc EXCEPT !.op = "saveWorkingHours",
                                               !.clerk = clerk,
                                               !.workingHours = hours]]
  /\ IF clerk = NoAuth
       THEN Finish(p, Failed("Unauthorized"))
       ELSE Goto(p, "saveFindUser")
  /\ UNCHANGED <<user, car, testDriveBooking, userSavedCar, dealershipInfo, workingHour>>

\* const user = await db.user.findUnique(...); admin check
SaveFindUser(p) ==
  /\ pc[p] = "saveFindUser"
  /\ LET u == FindUserRow(loc[p].clerk) IN
       /\ loc' = [loc EXCEPT ![p].user = u]
       /\ IF IsAdmin(u)
            THEN Goto(p, "saveFindDealership")
            ELSE Finish(p, Failed("Unauthorized: Admin access required"))
  /\ UNCHANGED <<user, car, testDriveBooking, userSavedCar, dealershipInfo, workingHour>>

\* const dealership = await db.dealershipInfo.findFirst()
SaveFindDealership(p) ==
  /\ pc[p] = "saveFindDealership"
  /\ IF dealershipInfo = {}
       THEN /\ Finish(p, Failed("Dealership info not found"))
            /\ UNCHANGED loc
       ELSE /\ \E d \in dealershipInfo : loc' = [loc EXCEPT ![p].dealershipId = d]
            /\ Goto(p, "saveDeleteMany")
  /\ UNCHANGED <<user, car, testDriveBooking, userSavedCar, dealershipInfo, workingHour>>

SaveDeleteManyKeepsRows(p) ==
  /\ pc[p] = "saveDeleteMany"
  /\ workingHour' = workingHour
  /\ loc' = [loc EXCEPT ![p].k = 1, ![p].wrote = TRUE]
  /\ IF loc[p].workingHours = <<>>
       THEN Finish(p, Succeeded)
       ELSE Goto(p, "saveCreate")
  /\ UNCHANGED <<user, car, testDriveBooking, userSavedCar, dealershipInfo>>

\* await db.workingHour.deleteMany({ where: { dealershipId } }); an empty
\* list skips the loop and returns
SaveDeleteMany(p) ==
  /\ pc[p] = "saveDeleteMany"
  /\ workingHour' = {r \in workingHour : r.dealershipId # loc[p].dealershipId}
  /\ loc' = [loc EXCEPT ![p].k = 1, ![p].wrote = TRUE]
  /\ IF loc[p].workingHours = <<>>
       THEN Finish(p, Succeeded)
       ELSE Goto(p, "saveCreate")
  /\ UNCHANGED <<user, car, testDriveBooking, userSavedCar, dealershipInfo>>

\* for (const hour of workingHours) await db.workingHour.create(...)
SaveCreate(p) ==
  /\ pc[p] = "saveCreate"
  /\ LET h == loc[p].workingHours[loc[p].k]
         d == loc[p].dealershipId
     IN IF HourUniqueViolation(d, h.dayOfWeek)
          THEN /\ Finish(p, Failed("P2002"))
               /\ UNCHANGED <<workingHour, loc>>
          ELSE /\ workingHour' = workingHour \cup {HourRow(d, h)}
               /\ loc' = [loc EXCEPT ![p].k = @ + 1, ![p].wrote = TRUE]
               /\ IF loc[p].k = Len(loc[p].workingHours)
                    THEN Finish(p, Succeeded)
                    ELSE Goto(p, "saveCreate")
  /\ UNCHANGED <<user, car, testDriveBooking, userSavedCar, dealershipInfo>>

\* updateUserRole(id, role): the two argument checks, then await auth()
RoleCall(p, clerk, id, role) ==
  /\ pc[p] = "idle"
  /\ LET args == [IdleLoc EXCEPT !.op = "updateUserRole", !.id = id, !.role = role] IN
       IF id = ""
         THEN /\ Finish(p, Failed("Missing user"))
              /\ loc' = [loc EXCEPT ![p] = args]
         ELSE IF role = ""
           THEN /\ Finish(p, Failed("Missing role"))
                /\ loc' = [loc EXCEPT ![p] = args]
           ELSE /\ loc' = [loc EXCEPT ![p] = [args EXCEPT !.clerk = clerk]]
                /\ IF clerk = NoAuth
                     THEN Finish(p, Failed("Unauthorized"))
                     ELSE Goto(p, "roleFindAdmin")
  /\ UNCHANGED <<user, car, testDriveBooking, userSavedCar, dealershipInfo, workingHour>>

\* const adminUser = await db.user.findUnique(...); admin check
RoleFindAdmin(p) ==
  /\ pc[p] = "roleFindAdmin"
  /\ LET u == FindUserRow(loc[p].clerk) IN
       /\ loc' = [loc EXCEPT ![p].user = u]
       /\ IF IsAdmin(u)
            THEN Goto(p, "roleUpdate")
            ELSE Finish(p, Failed("Unauthorized: Admin access required"))
  /\ UNCHANGED <<user, car, testDriveBooking, userSavedCar, dealershipInfo, workingHour>>

\* await db.user.update({ where: { id }, data: { role } }); an id that names
\* no row throws (P2025)
RoleUpdate(p) ==
  /\ pc[p] = "roleUpdate"
  /\ IF \E u \in user : u.id = loc[p].id
       THEN /\ user' = {IF u.id = loc[p].id THEN [u EXCEPT !.role = loc[p].role]
                                            ELSE u : u \in user}
            /\ loc' = [loc EXCEPT ![p].wrote = TRUE]
            /\ Finish(p, Succeeded)
       ELSE /\ Finish(p, Failed("P2025"))
            /\ UNCHANGED <<user, loc>>
  /\ UNCHANGED <<car, testDriveBooking, userSavedCar, dealershipInfo, workingHour>>

\* the caller has the outcome; the process is free for the next request
SettingsDone(p) ==
  /\ pc[p] = "done"
  /\ loc[p].op \in {"getDealershipInfo", "saveWorkingHours", "updateUserRole"}
  /\ pc' = [pc EXCEPT ![p] = "idle"]
  /\ loc' = [loc EXCEPT ![p] = IdleLoc]
  /\ result' = [result EXCEPT ![p] = NoResult]
  /\ UNCHANGED <<user, car, testDriveBooking, userSavedCar, dealershipInfo, workingHour>>

HoursA ==
  << Hour("MONDAY", "08:00", "17:00", TRUE), Hour("TUESDAY", "08:00", "17:00", TRUE) >>
HoursB == << Hour("MONDAY", "10:00", "16:00", FALSE) >>
HourInputs == {HoursA, HoursB}

RoleIdInputs == {"", "u1", "u2", "u9"}
RoleInputs == {"", "USER", "ADMIN"}

-----------------------------------------------------------------------------
\* getCarById(carId)

BookingStatus == {"PENDING", "CONFIRMED", "COMPLETED", "CANCELLED", "NO_SHOW"}

Booking(id, carId, userId, status, createdAt) ==
  [id |-> id, carId |-> carId, userId |-> userId, status |-> status,
   createdAt |-> createdAt]

\* the TestDriveBooking rows the stores of this model are drawn from
BookingPool ==
  { Booking("b1", "c1", "u1", "PENDING", 1),
    Booking("b2", "c1", "u2", "CONFIRMED", 2),
    Booking("b3", "c1", "u1", "CANCELLED", 3),
    Booking("b4", "c1", "u1", "COMPLETED", 2) }

\* where: { carId, userId: dbUser?.id, status: { in: [...] } }: a condition
\* whose value is undefined is left out of the query
TestDriveWhere(b, carId, dbUser) ==
  /\ b.carId = carId
  /\ (dbUser # NoUser => b.userId = dbUser.id)
  /\ b.status \in {"PENDING", "CONFIRMED", "COMPLETED"}

\* findFirst with orderBy createdAt desc: the rows that may come first
NewestOf(rows) == {b \in rows : \A o \in rows : o.createdAt <= b.createdAt}

\* const { userId } = await auth(): the lookup of the user row is skipped
\* without a userId
CarCall(p, clerk, carId) ==
  /\ pc[p] = "idle"
  /\ loc' = [loc EXCEPT ![p] = [IdleLoc EXCEPT !.op = "getCarById",
                                               !.clerk = clerk, !.carId = carId]]
  /\ Goto(p, IF clerk = NoAuth THEN "carFindCar" ELSE "carFindUser")
  /\ UNCHANGED <<user, car, testDriveBooking, userSavedCar, dealershipInfo, workingHour>>

\* dbUser = await db.user.findUnique(...)
CarFindUser(p) ==
  /\ pc[p] = "carFindUser"
  /\ loc' = [loc EXCEPT ![p].user = FindUserRow(loc[p].clerk)]
  /\ Goto(p, "carFindCar")
  /\ UNCHANGED <<user, car, testDriveBooking, userSavedCar, dealershipInfo, workingHour>>

\* const car = await db.car.findUnique(...); if (!car) return "Car not found"
CarFindCar(p) ==
  /\ pc[p] = "carFindCar"
  /\ IF ~CarExists(loc[p].carId)
       THEN Finish(p, Failed("Car not found"))
       ELSE Goto(p, IF loc[p].user # NoUser THEN "carFindSaved"
                                            ELSE "carFindTestDrive")
  /\ UNCHANGED <<user, car, testDriveBooking, userSavedCar, dealershipInfo, workingHour, loc>>

\* if (dbUser) isWishlisted = !!(await db.userSavedCar.findUnique(...))
CarFindSaved(p) ==
  /\ pc[p] = "carFindSaved"
  /\ loc' = [loc EXCEPT ![p].isWishlisted =
               userSavedCar[<<loc[p].user.id, loc[p].carId>>] > 0]
  /\ Goto(p, "carFindTestDrive")
  /\ UNCHANGED <<user, car, testDriveBooking, userSavedCar, dealershipInfo, workingHour>>

\* const existingTestDrive = await db.testDriveBooking.findFirst(...)
CarFindTestDrive(p) ==
  /\ pc[p] = "carFindTestDrive"
  /\ LET rows == {b \in testDriveBooking :
                    TestDriveWhere(b, loc[p].carId, loc[p].user)}
     IN IF rows = {}
          THEN UNCHANGED loc
          ELSE \E b \in NewestOf(rows) :
                 loc' = [loc EXCEPT ![p].userTestDrive = b.id]
  /\ Goto(p, "carFindDealership")
  /\ UNCHANGED <<user, car, testDriveBooking, userSavedCar, dealershipInfo, workingHour>>

\* const dealership = await db.dealershipInfo.findFirst({ include:
\* { workingHours: true } }); return the assembled details
CarFindDealership(p) ==
  /\ pc[p] = "carFindDealership"
  /\ IF dealershipInfo = {}
       THEN UNCHANGED loc
       ELSE \E d \in dealershipInfo :
              loc' = [loc EXCEPT ![p].dealershipId = d,
                                 ![p].seenHours =
                                   {r \in workingHour : r.dealershipId = d}]
  /\ Finish(p, Succeeded)
  /\ UNCHANGED <<user, car, testDriveBooking, userSavedCar, dealershipInfo, workingHour>>

\* the caller has the outcome; the process is free for the next request
CarDone(p) ==
  /\ pc[p] = "done"
  /\ loc[p].op = "getCarById"
  /\ pc' = [pc EXCEPT ![p] = "idle"]
  /\ loc' = [loc EXCEPT ![p] = IdleLoc]
  /\ result' = [result EXCEPT ![p] = NoResult]
  /\ UNCHANGED <<user, car, testDriveBooking, userSavedCar, dealershipInfo, workingHour>>

-----------------------------------------------------------------------------
\* toggleSavedCar(carId)

\* const { userId } = await auth(); if (!userId) throw new Error("Unauthorized")
ToggleCall(p, clerk, carId) ==
  /\ pc[p] = "idle"
  /\ loc' = [loc EXCEPT ![p] = [IdleLoc EXCEPT !.op = "toggleSavedCar",
                                               !.clerk = clerk, !.carId = carId]]
  /\ IF clerk = NoAuth
       THEN Finish(p, Thrown("Unauthorized"))
       ELSE Goto(p, "findUser")
  /\ UNCHANGED <<user, car, testDriveBooking, userSavedCar, dealershipInfo, workingHour>>

\* const user = await db.user.findUnique(...); if (!user) throw "User not found"
ToggleFindUser(p) ==
  /\ pc[p] = "findUser"
  /\ loc[p].op = "toggleSavedCar"
  /\ LET u == FindUserByClerkId(loc[p].clerk) IN
       IF u = Null
         THEN /\ Finish(p, Thrown("User not found"))
              /\ UNCHANGED loc
         ELSE /\ Goto(p, "findCar")
              /\ loc' = [loc EXCEPT ![p].userId = u]
  /\ UNCHANGED <<user, car, testDriveBooking, userSavedCar, dealershipInfo, workingHour>>

\* const car = await db.car.findUnique(...); if (!car) return "Car not found"
ToggleFindCarNoCheck(p) ==
  /\ pc[p] = "findCar"
  /\ Goto(p, "findSave")
  /\ UNCHANGED <<user, car, testDriveBooking, userSavedCar, dealershipInfo, workingHour, loc>>

ToggleFindCar(p) ==
  /\ pc[p] = "findCar"
  /\ IF CarExists(loc[p].carId)
       THEN Goto(p, "findSave")
       ELSE Finish(p, Returned(FALSE, FALSE, "Car not found"))
  /\ UNCHANGED <<user, car, testDriveBooking, userSavedCar, dealershipInfo, workingHour, loc>>

\* const existingSave = await db.userSavedCar.findUnique(...)
ToggleFindSave(p) ==
  /\ pc[p] = "findSave"
  /\ LET found == userSavedCar[<<loc[p].userId, loc[p].carId>>] > 0 IN
       /\ loc' = [loc EXCEPT ![p].existingSave = found]
       /\ Goto(p, IF found THEN "delete" ELSE "create")
  /\ UNCHANGED <<user, car, testDriveBooking, userSavedCar, dealershipInfo, workingHour>>

\* if (existingSave) { await db.userSavedCar.delete(...); return saved: false }
\* delete of a row that is gone throws (P2025) and the catch rethrows
ToggleDeleteKeepsRow(p) ==
  /\ pc[p] = "delete"
  /\ Finish(p, Returned(TRUE, FALSE, "none"))
  /\ UNCHANGED <<user, car, testDriveBooking, userSavedCar, dealershipInfo, workingHour, loc>>

ToggleDelete(p) ==
  /\ pc[p] = "delete"
  /\ LET k == <<loc[p].userId, loc[p].carId>> IN
       IF userSavedCar[k] = 0
         THEN /\ Finish(p, Thrown("P2025"))
              /\ UNCHANGED userSavedCar
         ELSE /\ userSavedCar' = [userSavedCar EXCEPT ![k] = @ - 1]
              /\ Finish(p, Returned(TRUE, FALSE, "none"))
  /\ UNCHANGED <<user, car, testDriveBooking, dealershipInfo, workingHour, loc>>

\* await db.userSavedCar.create(...); return saved: true
\* an insert the unique index rejects throws (P2002) and the catch rethrows
ToggleCreate(p) ==
  /\ pc[p] = "create"
  /\ LET k == <<loc[p].userId, loc[p].carId>> IN
       IF UniqueViolation(k[1], k[2])
         THEN /\ Finish(p, Thrown("P2002"))
              /\ UNCHANGED userSavedCar
         ELSE /\ userSavedCar' = [userSavedCar EXCEPT ![k] = @ + 1]
              /\ Finish(p, Returned(TRUE, TRUE, "none"))
  /\ UNCHANGED <<user, car, testDriveBooking, dealershipInfo, workingHour, loc>>

\* the caller has the outcome; the process is free for the next request
ToggleDone(p) ==
  /\ pc[p] = "done"
  /\ loc[p].op = "toggleSavedCar"
  /\ pc' = [pc EXCEPT ![p] = "idle"]
  /\ loc' = [loc EXCEPT ![p] = IdleLoc]
  /\ result' = [result EXCEPT ![p] = NoResult]
  /\ UNCHANGED <<user, car, testDriveBooking, userSavedCar, dealershipInfo, workingHour>>

\* Concurrent toggles: any number of calls by the request processes

InitStores ==
  /\ user = UserRows
  /\ car = CarPool
  /\ dealershipInfo = {}
  /\ workingHour = {}
  /\ testDriveBooking = {}
  /\ userSavedCar = [k \in SavedKeys |-> 0]

InitProcs ==
  /\ pc = [p \in Procs |-> "idle"]
  /\ loc = [p \in Procs |-> IdleLoc]
  /\ result = [p \in Procs |-> NoResult]

Init ==
  /\ InitStores
  /\ InitProcs
  /\ pre = userSavedCar
  /\ hist = <<>>
  /\ filter = DefaultFilter
  /\ resp = NoResp
  /\ walk = NoWalk
  /\ facets = NoFacets
  /\ carsCall = NoCarsCall

Unrecorded == UNCHANGED <<pre, hist>> /\ SearchIdle

Next ==
  \E p \in Procs :
    \/ \E clerk \in Callers, carId \in ToggleCarIds :
         ToggleCall(p, clerk, carId) /\ Unrecorded
    \/ ToggleFindUser(p) /\ Unrecorded
    \/ ToggleFindCar(p) /\ Unrecorded
    \/ ToggleFindSave(p) /\ Unrecorded
    \/ ToggleDelete(p) /\ Unrecorded
    \/ ToggleCreate(p) /\ Unrecorded
    \/ ToggleDone(p) /\ Unrecorded

Spec == Init /\ [][Next]_vars

-----------------------------------------------------------------------------
\* One caller at a time: process p1 runs its toggles to completion, and the
\* history variables record each call's store before and after.

Caller == "p1"

PushHist(h, e) ==
  IF Len(h) < MaxHist THEN Append(h, e) ELSE Append(Tail(h), e)

Record ==
  /\ pre' = IF pc[Caller] = "idle" THEN userSavedCar ELSE pre
  /\ hist' = IF pc[Caller] # "done" /\ pc'[Caller] = "done"
               THEN PushHist(hist,
                      [clerk |-> loc'[Caller].clerk, carId |-> loc'[Caller].carId,
                       before |-> pre', after |-> userSavedCar',
                       result |-> result'[Caller]])
               ELSE hist
  /\ SearchIdle

NextSeq ==
  \/ \E clerk \in Callers, carId \in ToggleCarIds :
       ToggleCall(Caller, clerk, carId) /\ Record
  \/ ToggleFindUser(Caller) /\ Record
  \/ ToggleFindCar(Caller) /\ Record
  \/ ToggleFindSave(Caller) /\ Record
  \/ ToggleDelete(Caller) /\ Record
  \/ ToggleCreate(Caller) /\ Record
  \/ ToggleDone(Caller) /\ Record

SpecSeq == Init /\ [][NextSeq]_vars

-----------------------------------------------------------------------------
\* Search over a fixed store: the Car table is any subset of the pool, user
\* u1 has saved c1, and the request's parameters are fixed while its pages
\* are fetched.

InitCars ==
  /\ user = UserRows
  /\ dealershipInfo = {}
  /\ workingHour = {}
  /\ testDriveBooking = {}
  /\ car \in SUBSET CarPool
  /\ userSavedCar = [k \in SavedKeys |-> IF k = <<"u1", "c1">> THEN 1 ELSE 0]
  /\ InitProcs
  /\ pre = userSavedCar
  /\ hist = <<>>
  /\ filter \in Filters
  /\ resp = NoResp
  /\ walk = NoWalk
  /\ facets = NoFacets
  /\ carsCall = NoCarsCall

NextCars ==
  \/ \E page \in PageInputs : GetCarsCall(page)
  \/ GetCarsFindUser
  \/ GetCarsCount
  \/ GetCarsFindMany
  \/ GetCarsFindSaved

SpecCars == InitCars /\ [][NextCars]_vars

\* the same search, asked with a page size of zero or less
InitLimit ==
  /\ user = UserRows
  /\ dealershipInfo = {}
  /\ workingHour = {}
  /\ testDriveBooking = {}
  /\ car \in SUBSET CarPool
  /\ userSavedCar = [k \in SavedKeys |-> IF k = <<"u1", "c1">> THEN 1 ELSE 0]
  /\ InitProcs
  /\ pre = userSavedCar
  /\ hist = <<>>
  /\ filter \in FiltersWithLimit(NonPositiveLimitInputs)
  /\ resp = NoResp
  /\ walk = NoWalk
  /\ facets = NoFacets
  /\ carsCall = NoCarsCall

SpecLimit == InitLimit /\ [][NextCars]_vars

-----------------------------------------------------------------------------
\* Settings requests by concurrent callers, from empty DealershipInfo and
\* WorkingHour tables

NextAdmin ==
  \E p \in Procs :
    \/ \E clerk \in Callers : InfoCall(p, clerk) /\ Unrecorded
    \/ InfoFind(p) /\ Unrecorded
    \/ InfoCreate(p) /\ Unrecorded
    \/ \E clerk \in Callers, hours \in HourInputs :
         SaveCall(p, clerk, hours) /\ Unrecorded
    \/ SaveFindUser(p) /\ Unrecorded
    \/ SaveFindDealership(p) /\ Unrecorded
    \/ SaveDeleteMany(p) /\ Unrecorded
    \/ SaveCreate(p) /\ Unrecorded
    \/ \E clerk \in Callers, id \in RoleIdInputs, role \in RoleInputs :
         RoleCall(p, clerk, id, role) /\ Unrecorded
    \/ RoleFindAdmin(p) /\ Unrecorded
    \/ RoleUpdate(p) /\ Unrecorded
    \/ SettingsDone(p) /\ Unrecorded

SpecAdmin == Init /\ [][NextAdmin]_vars

\* the dealership settings used by one caller, one request after another
NextSettingsSeq ==
  \/ \E clerk \in Callers : InfoCall(Caller, clerk) /\ Unrecorded
  \/ InfoFind(Caller) /\ Unrecorded
  \/ InfoCreate(Caller) /\ Unrecorded
  \/ \E clerk \in Callers, hours \in HourInputs :
       SaveCall(Caller, clerk, hours) /\ Unrecorded
  \/ SaveFindUser(Caller) /\ Unrecorded
  \/ SaveFindDealership(Caller) /\ Unrecorded
  \/ SaveDeleteMany(Caller) /\ Unrecorded
  \/ SaveCreate(Caller) /\ Unrecorded
  \/ \E clerk \in Callers, id \in RoleIdInputs, role \in RoleInputs :
       RoleCall(Caller, clerk, id, role) /\ Unrecorded
  \/ RoleFindAdmin(Caller) /\ Unrecorded
  \/ RoleUpdate(Caller) /\ Unrecorded
  \/ SettingsDone(Caller) /\ Unrecorded

SpecSettingsSeq == Init /\ [][NextSettingsSeq]_vars

\* one caller saving working hours while another reads the dealership
Writer == "p1"
Reader == "p2"

NextHours ==
  \/ \E clerk \in Callers, hours \in HourInputs :
       SaveCall(Writer, clerk, hours) /\ Unrecorded
  \/ SaveFindUser(Writer) /\ Unrecorded
  \/ SaveFindDealership(Writer) /\ Unrecorded
  \/ SaveDeleteMany(Writer) /\ Unrecorded
  \/ SaveCreate(Writer) /\ Unrecorded
  \/ SettingsDone(Writer) /\ Unrecorded
  \/ \E clerk \in Callers : InfoCall(Reader, clerk) /\ Unrecorded
  \/ InfoFind(Reader) /\ Unrecorded
  \/ InfoCreate(Reader) /\ Unrecorded
  \/ SettingsDone(Reader) /\ Unrecorded
  \/ \E clerk \in Callers, carId \in ToggleCarIds :
       CarCall(Reader, clerk, carId) /\ Unrecorded
  \/ CarFindUser(Reader) /\ Unrecorded
  \/ CarFindCar(Reader) /\ Unrecorded
  \/ CarFindSaved(Reader) /\ Unrecorded
  \/ CarFindTestDrive(Reader) /\ Unrecorded
  \/ CarFindDealership(Reader) /\ Unrecorded
  \/ CarDone(Reader) /\ Unrecorded

SpecHours == Init /\ [][NextHours]_vars

-----------------------------------------------------------------------------
\* Listing details read by one caller, over any set of bookings from the pool

InitDetail ==
  /\ user = UserRows
  /\ car = CarPool
  /\ userSavedCar = [k \in SavedKeys |-> IF k = <<"u1", "c1">> THEN 1 ELSE 0]
  /\ dealershipInfo = {}
  /\ workingHour = {}
  /\ testDriveBooking \in SUBSET BookingPool
  /\ InitProcs
  /\ pre = userSavedCar
  /\ hist = <<>>
  /\ filter = DefaultFilter
  /\ resp = NoResp
  /\ walk = NoWalk
  /\ facets = NoFacets
  /\ carsCall = NoCarsCall

NextDetail ==
  \/ \E clerk \in Callers, carId \in ToggleCarIds :
       CarCall(Caller, clerk, carId) /\ Unrecorded
  \/ CarFindUser(Caller) /\ Unrecorded
  \/ CarFindCar(Caller) /\ Unrecorded
  \/ CarFindSaved(Caller) /\ Unrecorded
  \/ CarFindTestDrive(Caller) /\ Unrecorded
  \/ CarFindDealership(Caller) /\ Unrecorded
  \/ CarDone(Caller) /\ Unrecorded

SpecDetail == InitDetail /\ [][NextDetail]_vars

-----------------------------------------------------------------------------
\* Filter options over any set of cars from the pool

InitFilters ==
  /\ user = UserRows
  /\ car \in SUBSET FilterPool
  /\ userSavedCar = [k \in SavedKeys |-> 0]
  /\ dealershipInfo = {}
  /\ workingHour = {}
  /\ testDriveBooking = {}
  /\ InitProcs
  /\ pre = userSavedCar
  /\ hist = <<>>
  /\ filter = DefaultFilter
  /\ resp = NoResp
  /\ walk = NoWalk
  /\ facets = NoFacets
  /\ carsCall = NoCarsCall

NextFilters ==
  \/ GetCarFiltersBrands
  \/ GetCarFiltersBodyTypes
  \/ GetCarFiltersFuelTypes
  \/ GetCarFiltersTransmissions
  \/ GetCarFiltersAggregate

SpecFilters == InitFilters /\ [][NextFilters]_vars

-----------------------------------------------------------------------------
\* Properties of toggleSavedCar

\* C1: under any interleaving of toggleSavedCar calls the UserSavedCar table
\* holds at most one row per (user, listing) pair.
C1_AtMostOneSavedRow == \A k \in SavedKeys : userSavedCar[k] <= 1

\* two calls raced to the insert; the loser was rejected and one row exists
C1_Witness ==
  \E p \in Procs :
    /\ result[p].error = "P2002"
    /\ userSavedCar[<<loc[p].userId, loc[p].carId>>] = 1

HasUserRow(clerk) == \E u \in UserRows : u.clerkUserId = clerk
UserIdOf(clerk) == (CHOOSE u \in UserRows : u.clerkUserId = clerk).id
IsListing(carId) == \E c \in CarPool : c.id = carId

\* a completed toggle by a caller with a user record on an existing listing
Eligible(e) == HasUserRow(e.clerk) /\ IsListing(e.carId)
KeyOf(e) == <<UserIdOf(e.clerk), e.carId>>

\* C2: with no other toggle in between, a toggle by a user with a user record
\* on an existing listing deletes the pair's row and reports saved=false if
\* the row existed, else creates it and reports saved=true; two consecutive
\* toggles of the same pair restore the store, the second reporting the
\* negation of the first.
C2_ToggleFlips ==
  /\ \A i \in 1..Len(hist) :
       LET e == hist[i] IN
         Eligible(e) =>
           /\ e.result.kind = "returned"
           /\ e.result.success
           /\ e.result.saved = (e.before[KeyOf(e)] = 0)
           /\ e.after = [e.before EXCEPT ![KeyOf(e)] = IF @ > 0 THEN 0 ELSE 1]
  /\ (/\ Len(hist) = 2
      /\ Eligible(hist[1])
      /\ Eligible(hist[2])
      /\ KeyOf(hist[1]) = KeyOf(hist[2]))
     => /\ hist[2].after = hist[1].before
        /\ hist[2].result.saved = ~hist[1].result.saved

\* save then unsave of the same pair, back to back
C2_Witness ==
  /\ Len(hist) = 2
  /\ Eligible(hist[1])
  /\ Eligible(hist[2])
  /\ KeyOf(hist[1]) = KeyOf(hist[2])
  /\ hist[1].result.saved
  /\ ~hist[2].result.saved
  /\ hist[2].result.success
  /\ hist[1].after[KeyOf(hist[1])] = 1

\* C3: when two concurrent toggles of one pair both find no row and both
\* insert, the insert rejected by the unique index is caught and treated as
\* already saved: no call that went to insert ends in a thrown error.
C3_DuplicateInsertCaught ==
  \A p \in Procs :
    (/\ pc[p] = "done"
     /\ loc[p].op = "toggleSavedCar"
     /\ loc[p].userId # Null
     /\ IsListing(loc[p].carId)
     /\ ~loc[p].existingSave)
    => result[p].kind = "returned" /\ result[p].success

\* C4: toggleSavedCar fails with "Car not found" for a listing id that names
\* no row, and fails as unauthorized (thrown "Unauthorized" / "User not
\* found") for an unauthenticated caller or one without a user record; each
\* failing call leaves the UserSavedCar table as it found it.
C4_FailuresLeaveStore ==
  \A i \in 1..Len(hist) :
    LET e == hist[i] IN
      /\ e.clerk = NoAuth =>
           e.result = Thrown("Unauthorized") /\ e.after = e.before
      /\ (e.clerk # NoAuth /\ ~HasUserRow(e.clerk)) =>
           e.result = Thrown("User not found") /\ e.after = e.before
      /\ (HasUserRow(e.clerk) /\ ~IsListing(e.carId)) =>
           /\ e.result = Returned(FALSE, FALSE, "Car not found")
           /\ e.after = e.before

\* on a store holding a saved row, an unknown listing and then a caller
\* without a user row have each failed, and both calls are recorded
C4_Witness ==
  /\ Len(hist) = 2
  /\ \E k \in SavedKeys : userSavedCar[k] = 1
  /\ hist[1].result = Returned(FALSE, FALSE, "Car not found")
  /\ hist[2].result = Thrown("User not found")

-----------------------------------------------------------------------------
\* Properties of the settings actions

Gated(p) == loc[p].op \in {"saveWorkingHours", "updateUserRole"}

\* C5: saveWorkingHours and updateUserRole write to the store only for an
\* authenticated caller whose own User row, freshly looked up, has role ADMIN;
\* for an unauthenticated caller, a caller without a User row or one whose
\* row says USER the call returns success=false and has written nothing.
C5_AdminGate ==
  \A p \in Procs :
    Gated(p) =>
      /\ (loc[p].wrote \/ pc[p] \in {"saveDeleteMany", "saveCreate", "roleUpdate"}) =>
           /\ loc[p].clerk # NoAuth
           /\ loc[p].user.clerkUserId = loc[p].clerk
           /\ loc[p].user.role = "ADMIN"
      /\ (/\ pc[p] = "done"
          /\ \/ loc[p].clerk = NoAuth
             \/ ~HasUserRow(loc[p].clerk)
             \/ loc[p].user.role = "USER")
         => ~result[p].success /\ ~loc[p].wrote

\* a USER's saveWorkingHours was refused while an admin's call was writing
C5_Witness ==
  \E p, q \in Procs :
    /\ pc[p] = "done"
    /\ loc[p].op = "saveWorkingHours"
    /\ loc[p].user.role = "USER"
    /\ result[p] = Failed("Unauthorized: Admin access required")
    /\ loc[q].wrote
    /\ loc[q].user.role = "ADMIN"
    /\ dealershipInfo # {}

-----------------------------------------------------------------------------
\* Properties of getCars

SameIgnoringCase(a, b) ==
  /\ Len(a) = Len(b)
  /\ \A i \in 1..Len(a) : Lower(a[i]) = Lower(b[i])

OccursIgnoringCase(needle, hay) ==
  \E k \in 0..(Len(hay) - Len(needle)) :
    SameIgnoringCase(SubSeq(hay, k + 1, k + Len(needle)), needle)

\* the listing predicate of the search: status, free text and the four facets
Listed(c, f) ==
  /\ c.status = "AVAILABLE"
  /\ (f.search # <<>> =>
        \/ OccursIgnoringCase(f.search, c.brand)
        \/ OccursIgnoringCase(f.search, c.model)
        \/ OccursIgnoringCase(f.search, c.description))
  /\ (f.brand # <<>> => SameIgnoringCase(c.brand, f.brand))
  /\ (f.bodyType # <<>> => SameIgnoringCase(c.bodyType, f.bodyType))
  /\ (f.fuelType # <<>> => SameIgnoringCase(c.fuelType, f.fuelType))
  /\ (f.transmission # <<>> => SameIgnoringCase(c.transmission, f.transmission))

\* the price filter of the request: price >= minPrice (0 when absent), and
\* price <= maxPrice when maxPrice is a non-empty string or a non-zero number
InPriceFilter(c, f) ==
  /\ c.price >= (IF f.minPrice = Str(<<>>) THEN 0 ELSE ParseFloat(f.minPrice).n)
  /\ (f.maxPrice \notin {Str(<<>>), Num(0)} =>
        c.price <= ParseFloat(f.maxPrice).n)

\* C6, as stated: every listing getCars returns is AVAILABLE, contains the
\* search text (ignoring case) in brand, model or description when search is
\* non-empty, and equals each supplied facet ignoring case; pagination.total
\* is the number of stored listings satisfying that same predicate.
C6_TotalCountsListed ==
  resp.kind = "returned" =>
    /\ \A i \in 1..Len(resp.data) : Listed(resp.data[i].car, filter)
    /\ resp.pagination.total = Cardinality({c \in car : Listed(c, filter)})

\* C6, amended: every listing getCars returns is AVAILABLE, contains the
\* search text (ignoring case) in brand, model or description when search is
\* non-empty, and equals each supplied facet ignoring case; pagination.total
\* is the number of stored listings satisfying that predicate and the
\* request's price filter.
C6_FiltersApplied ==
  resp.kind = "returned" =>
    /\ \A i \in 1..Len(resp.data) : Listed(resp.data[i].car, filter)
    /\ resp.pagination.total =
         Cardinality({c \in car : Listed(c, filter) /\ InPriceFilter(c, filter)})

\* on the whole pool, search "S" with fuelType "A" and minPrice "2": c2 is
\* left out by the search and by its fuel type, c4 by its status and c1 by its
\* price; c3, found by its description, is the one listing counted and
\* returned, while two listings satisfy the predicate
C6_Witness ==
  /\ resp.kind = "returned"
  /\ car = CarPool
  /\ filter.search = <<"S">>
  /\ filter.fuelType = <<"A">>
  /\ filter.minPrice = Str(<<"2">>)
  /\ Cardinality({c \in car : Listed(c, filter)}) = 2
  /\ resp.pagination.total = 1
  /\ \E i \in 1..Len(resp.data) : resp.data[i].car.id = "c3"

\* C7: for page >= 1 and limit >= 1 getCars returns, with
\* pages = ceil(total / limit) and at most limit listings; a page beyond the
\* last is empty, with total and pages still the true values.
C7_Pagination ==
  (resp.kind # "none" /\ resp.page >= 1) =>
    /\ resp.kind = "returned"
    /\ resp.pagination.total = Cardinality({c \in car : Where(c, filter)})
    /\ resp.pagination.pagesKind = "finite"
    /\ resp.pagination.pages * filter.limit >= resp.pagination.total
    /\ (resp.pagination.pages - 1) * filter.limit < resp.pagination.total
    /\ Len(resp.data) <= filter.limit
    /\ (resp.page > resp.pagination.pages => resp.data = <<>>)

\* page 2 of 1: limit 2, one matching listing
C7_Witness ==
  /\ resp.kind = "returned"
  /\ resp.page = 2
  /\ filter.limit = 2
  /\ resp.pagination.total = 1
  /\ resp.pagination.pages = 1
  /\ resp.data = <<>>

\* C8: for a fixed store, filter, sortBy and limit, the pages 1..pages put
\* end to end hold every matching listing exactly once, ties on the sort key
\* included.
C8_PagesPartitionMatches ==
  (resp.kind = "returned" /\ walk.upTo >= 1 /\ walk.upTo = resp.pagination.pages) =>
    /\ Len(walk.rows) = resp.pagination.total
    /\ {walk.rows[i].car : i \in 1..Len(walk.rows)} = {c \in car : Where(c, filter)}

\* C9: whenever maxPrice is supplied, 0 included, no returned listing costs
\* more than maxPrice, and every returned listing costs at least minPrice
\* (0 when absent).
C9_PriceBounds ==
  resp.kind = "returned" =>
    \A i \in 1..Len(resp.data) :
      /\ resp.data[i].car.price >=
           (IF filter.minPrice = Str(<<>>) THEN 0 ELSE ParseFloat(filter.minPrice).n)
      /\ (filter.maxPrice # Str(<<>>) =>
            resp.data[i].car.price <= ParseFloat(filter.maxPrice).n)

\* C10: a request with page <= 0 does not fail and returns what page 1
\* returns for the same filter and limit.
C10_NonPositivePageIsPageOne ==
  (resp.kind # "none" /\ resp.page <= 0) =>
    /\ resp.kind = "returned"
    /\ \E ord \in Orderings({c \in car : Where(c, filter)}, filter.sortBy) :
         [i \in 1..Len(resp.data) |-> resp.data[i].car] =
           FindMany(ord, 0, filter.limit)

\* C11: a request with limit <= 0 is rejected, or served with its limit
\* clamped to a positive value; a result it returns never has
\* pagination.pages infinite, undefined or negative.
C11_NonPositiveLimitHandled ==
  (resp.kind # "none" /\ filter.limit <= 0) =>
    \/ resp.kind = "thrown"
    \/ /\ resp.kind = "returned"
       /\ resp.pagination.limit >= 1
       /\ resp.pagination.pagesKind = "finite"
       /\ resp.pagination.pages >= 0

-----------------------------------------------------------------------------
\* Properties of getCarById

\* the caller's own bookings of the listing that are pending, confirmed or
\* completed; none for a caller without a user record
OwnActiveBookings(clerk, carId) ==
  {b \in testDriveBooking :
     /\ HasUserRow(clerk)
     /\ b.userId = UserIdOf(clerk)
     /\ b.carId = carId
     /\ b.status \in {"PENDING", "CONFIRMED", "COMPLETED"}}

\* C12: the userTestDrive getCarById returns is null or the caller's own most
\* recently created PENDING/CONFIRMED/COMPLETED booking of that listing; for
\* an unauthenticated caller or one without a user record it is null.
C12_OwnBookingOnly ==
  \A p \in Procs :
    (pc[p] = "done" /\ loc[p].op = "getCarById" /\ result[p].success) =>
      \/ loc[p].userTestDrive = Null
      \/ \E b \in OwnActiveBookings(loc[p].clerk, loc[p].carId) :
           /\ b.id = loc[p].userTestDrive
           /\ \A o \in OwnActiveBookings(loc[p].clerk, loc[p].carId) :
                o.createdAt <= b.createdAt

-----------------------------------------------------------------------------
\* Properties of getCarFilters

AvailablePrices == {c.price : c \in {a \in car : a.status = "AVAILABLE"}}

\* C13: the priceRange getCarFilters returns has max >= min; it is
\* {0, 100000} when no listing is AVAILABLE, and otherwise its min and max are
\* the smallest and the largest price of the AVAILABLE listings, a smallest
\* price of 0 included.
C13_PriceRange ==
  facets.called =>
    /\ facets.priceRange.max >= facets.priceRange.min
    /\ AvailablePrices = {} =>
         facets.priceRange = [min |-> 0, max |-> 100000]
    /\ AvailablePrices # {} =>
         /\ facets.priceRange.min \in AvailablePrices
         /\ facets.priceRange.max \in AvailablePrices
         /\ \A q \in AvailablePrices :
              facets.priceRange.min <= q /\ q <= facets.priceRange.max

\* every AVAILABLE listing costs 0, and the range returned is {0, 0}
C13_Witness ==
  /\ facets.called
  /\ AvailablePrices = {0}
  /\ facets.priceRange = [min |-> 0, max |-> 0]

-----------------------------------------------------------------------------
\* Properties of getDealershipInfo

\* Monday to Friday 09:00-18:00 open, Saturday 10:00-16:00 open, Sunday
\* 10:00-16:00 closed, as rows of dealership d
WeekOf(d) ==
  { HourRow(d, Hour(day, "09:00", "18:00", TRUE)) :
      day \in {"MONDAY", "TUESDAY", "WEDNESDAY", "THURSDAY", "FRIDAY"} }
  \cup { HourRow(d, Hour("SATURDAY", "10:00", "16:00", TRUE)),
         HourRow(d, Hour("SUNDAY", "10:00", "16:00", FALSE)) }

\* a step of the caller's getDealershipInfo request
InfoStep ==
  \/ pc[Caller] = "idle" /\ loc'[Caller].op = "getDealershipInfo"
  \/ pc[Caller] \in {"infoFind", "infoCreate"}

\* C14: on an empty dealership store a getDealershipInfo call by an
\* authenticated caller creates exactly one dealership row with exactly the
\* seven default working-hour rows; with a row present it creates nothing;
\* an unauthenticated call creates nothing and returns success = false.
C14_DefaultDealership ==
  [][InfoStep =>
       /\ loc'[Caller].clerk = NoAuth =>
            /\ UNCHANGED <<dealershipInfo, workingHour>>
            /\ pc'[Caller] = "done"
            /\ ~result'[Caller].success
       /\ dealershipInfo # {} =>
            /\ UNCHANGED <<dealershipInfo, workingHour>>
            /\ (loc'[Caller].clerk # NoAuth /\ pc'[Caller] = "done") =>
                 result'[Caller].success
       /\ (loc'[Caller].clerk # NoAuth /\ dealershipInfo = {}) =>
            IF pc[Caller] = "infoCreate"
              THEN /\ Cardinality(dealershipInfo') = 1
                   /\ \E d \in dealershipInfo' : workingHour' = WeekOf(d)
                   /\ Cardinality(workingHour') = 7
                   /\ pc'[Caller] = "done"
                   /\ result'[Caller].success
              ELSE /\ UNCHANGED <<dealershipInfo, workingHour>>
                   /\ pc'[Caller] =
                        IF pc[Caller] = "idle" THEN "infoFind" ELSE "infoCreate"
    ]_vars

\* the caller's request has just created the dealership and its seven rows
C14_Witness ==
  /\ pc[Caller] = "done"
  /\ loc[Caller].op = "getDealershipInfo"
  /\ result[Caller].success
  /\ Cardinality(dealershipInfo) = 1
  /\ Cardinality(workingHour) = 7
  /\ \E r \in workingHour : r.dayOfWeek = "SUNDAY" /\ ~r.isOpen

-----------------------------------------------------------------------------
\* Properties of saveWorkingHours

\* the Reader's step that reads the dealership with its working hours
ReadsDealership ==
  /\ pc[Reader] \in {"infoFind", "carFindDealership"}
  /\ pc'[Reader] = "done"

\* the rows the Writer's request has inserted so far, and all it will insert
InsertedSoFar ==
  {HourRow(loc[Writer].dealershipId, loc[Writer].workingHours[i]) :
     i \in 1..(loc[Writer].k - 1)}
SuppliedRows ==
  {HourRow(loc[Writer].dealershipId, loc[Writer].workingHours[i]) :
     i \in 1..Len(loc[Writer].workingHours)}

\* C15: saveWorkingHours is not an atomic replace: a reader (getCarById or
\* getDealershipInfo) whose read falls between the writer's delete-all and
\* the end of its inserts sees the dealership with zero working hours or
\* with only part of the supplied set.
C15_ReaderSeesPartialHours ==
  [][(pc[Writer] = "saveCreate" /\ ReadsDealership) =>
       /\ loc'[Reader].dealershipId = loc[Writer].dealershipId
       /\ loc'[Reader].seenHours = InsertedSoFar
       /\ loc'[Reader].seenHours # SuppliedRows
       /\ loc'[Reader].seenHours \subseteq SuppliedRows
    ]_vars

\* a getCarById call has read the dealership with zero working hours while
\* the writer stands between its delete-all and its first insert
C15_Witness ==
  /\ pc[Writer] = "saveCreate"
  /\ loc[Writer].k = 1
  /\ pc[Reader] = "done"
  /\ loc[Reader].op = "getCarById"
  /\ loc[Reader].dealershipId = loc[Writer].dealershipId
  /\ loc[Reader].seenHours = {}

-----------------------------------------------------------------------------
\* Properties of concurrent settings requests

\* C16: in every state reachable by interleaved getDealershipInfo calls, two
\* concurrent first reads of an empty store included, at most one dealership
\* row exists.
C16_AtMostOneDealership == Cardinality(dealershipInfo) <= 1

\* the working-hour rows of dealership d that a call supplied as `hours`
RowsOf(d, hours) == {HourRow(d, hours[i]) : i \in 1..Len(hours)}

\* both processes have returned success from saveWorkingHours on dealership d
BothSaved(d) ==
  \A p \in Procs :
    /\ pc[p] = "done"
    /\ loc[p].op = "saveWorkingHours"
    /\ result[p].success
    /\ loc[p].dealershipId = d

\* C17: after two interleaved admin saveWorkingHours calls on the same
\* dealership that both return success, the stored working hours of that
\* dealership are exactly the set one of the two calls supplied, never a
\* mixture, with at most one row per day of week.
C17_HoursAreOneCallsSet ==
  \A d \in dealershipInfo :
    (dealershipInfo = {d} /\ BothSaved(d)) =>
      LET rows == {r \in workingHour : r.dealershipId = d} IN
        /\ \E p \in Procs : rows = RowsOf(d, loc[p].workingHours)
        /\ \A r1, r2 \in rows : r1.dayOfWeek = r2.dayOfWeek => r1 = r2

====
